---- MODULE Spec2Model ----
(***************************************************************************)
(* Offline support of the leave-portal desktop runtime                     *)
(* (src-tauri/src/commands/offline.rs): the response cache and the         *)
(* outbound queue kept in the SQLite file offline-cache.db.                *)
(*                                                                         *)
(* Every command opens its own connection (get_offline_db) and then runs   *)
(* its SQL statements; SQLite executes one statement at a time, so a       *)
(* statement is one step here and a command is a sequence of steps of one  *)
(* caller.  Callers are the concurrent invocations of the commands.        *)
(*                                                                         *)
(* Texts are sequences of byte values.  A timestamp text is abbreviated to *)
(* the parts of an RFC3339 text that vary here: "hZ" stands for            *)
(* 2024-01-01T0h:00:00Z and "h+o" for 2024-01-01T0h:00:00+0o:00; an        *)
(* instant is a number of hours since 2024-01-01T00:00:00Z.                *)
(***************************************************************************)
EXTENDS Integers, Sequences, FiniteSets, TLC

\* ------------------------------------------------------------------ bounds
\* Utc::now() ranges over the instants 0..MaxTime.
MaxTime == 3

\* The process restarts at most MaxBoots times.
MaxBoots == 1

\* Database::new runs at most MaxRuns times.
MaxRuns == 3

\* ------------------------------------------------------------- Option<T>
None == <<>>
Some(x) == <<x>>

\* ------------------------------------------------------------------ texts
IsDigit(c) == c \in 48..57

\* "hZ": hour h, UTC.
TextZ(h) == <<48 + h, 90>>

\* "h+o": hour h at the offset +o hours.
TextOff(h, o) == <<48 + h, 43, 48 + o>>

\* chrono's DateTime::parse_from_rfc3339: the instant a text denotes, or
\* None (Err) when the text is no RFC3339 time.
ParseRfc3339(s) ==
    IF Len(s) = 2 /\ IsDigit(s[1]) /\ s[2] = 90
    THEN Some(s[1] - 48)
    ELSE IF Len(s) = 3 /\ IsDigit(s[1]) /\ s[2] = 43 /\ IsDigit(s[3])
         THEN Some((s[1] - 48) - (s[3] - 48))
         ELSE None

\* SQLite's BINARY collation of two TEXT values: memcmp of the common
\* prefix, then the shorter text first.
TextLess(a, b) ==
    \/ \E i \in 1..Len(a) :
          /\ i <= Len(b)
          /\ a[i] < b[i]
          /\ \A j \in 1..(i - 1) : a[j] = b[j]
    \/ /\ Len(a) < Len(b)
       /\ \A j \in 1..Len(a) : a[j] = b[j]

\* ------------------------------------------------------- serde_json::Value
JNull == [kind |-> "null", s |-> <<>>]
JNum(d) == [kind |-> "number", s |-> <<48 + d>>]
JStr(d) == [kind |-> "string", s |-> <<48 + d>>]

\* The text "null".
NullText == <<110, 117, 108, 108>>

\* A serializer that leaves the quotes of a string out.
ToJsonUnquoted(v) ==
    IF v.kind = "null" THEN NullText ELSE v.s

\* serde_json::to_string of a Value.
ToJson(v) ==
    IF v.kind = "null" THEN NullText
    ELSE IF v.kind = "string" THEN <<34>> \o v.s \o <<34>>
    ELSE v.s

\* serde_json::from_str::<Value>: Some(value), or None for a text that is
\* no JSON value (Err).
FromJson(txt) ==
    IF txt = NullText THEN Some(JNull)
    ELSE IF Len(txt) >= 2 /\ txt[1] = 34 /\ txt[Len(txt)] = 34
              /\ \A i \in 2..(Len(txt) - 1) : txt[i] # 34
         THEN Some([kind |-> "string", s |-> SubSeq(txt, 2, Len(txt) - 1)])
    ELSE IF Len(txt) >= 1 /\ \A i \in 1..Len(txt) : IsDigit(txt[i])
         THEN Some([kind |-> "number", s |-> txt])
    ELSE None

\* ------------------------------------------------------------- CacheEntry
Keys == {"k1", "k2"}

\* The entries the callers cache, without their key: every field varies, and
\* the expiry is absent, "1Z" (instant 1) or "3+1" (instant 2).
CacheShapes ==
    { [method |-> "GET", path |-> "/api/leaves", response |-> JStr(1),
       timestamp |-> TextZ(0), expires_at |-> None],
      [method |-> "POST", path |-> "/api/balances", response |-> JNum(1),
       timestamp |-> TextZ(1), expires_at |-> Some(TextZ(1))],
      [method |-> "GET", path |-> "/api/balances", response |-> JNull,
       timestamp |-> TextOff(2, 1), expires_at |-> Some(TextOff(3, 1))] }

\* struct CacheEntry.
CacheEntry(k, sh) ==
    [key |-> k, method |-> sh.method, path |-> sh.path,
     response |-> sh.response, timestamp |-> sh.timestamp,
     expires_at |-> sh.expires_at]

CacheEntries == {CacheEntry(k, sh) : k \in Keys, sh \in CacheShapes}

\* The row the INSERT of offline_set_cache_entry binds (?1..?6): the response
\* as its serialized text, the other fields as they are.
CacheRow(e) ==
    [key |-> e.key, method |-> e.method, path |-> e.path,
     response |-> ToJson(e.response), timestamp |-> e.timestamp,
     expires_at |-> e.expires_at]

\* The row closure of offline_get_cache_entry: Some(entry), or None when the
\* response text does not deserialize (InvalidColumnType).
CacheEntryOfRow(r) ==
    IF FromJson(r.response) = None THEN None
    ELSE Some([key |-> r.key, method |-> r.method, path |-> r.path,
               response |-> FromJson(r.response)[1],
               timestamp |-> r.timestamp, expires_at |-> r.expires_at])

\* ----------------------------------------------- table cache_entries (SQL)
\* SELECT ... FROM cache_entries WHERE key = ?
SelectByKey(tbl, k) == {r \in tbl : r.key = k}

\* DELETE FROM cache_entries WHERE key = ?
DeleteByKey(tbl, k) == {r \in tbl : r.key # k}

\* A plain INSERT into a table that has no PRIMARY KEY.
InsertNoKey(tbl, row) == tbl \cup {row}

\* An upsert that keeps the old expiry when the new row has none.
InsertMerge(tbl, row) ==
    IF row.expires_at = None /\ SelectByKey(tbl, row.key) # {}
    THEN DeleteByKey(tbl, row.key)
           \cup {[row EXCEPT !.expires_at = old.expires_at] :
                    old \in SelectByKey(tbl, row.key)}
    ELSE DeleteByKey(tbl, row.key) \cup {row}

\* INSERT OR REPLACE INTO cache_entries, key being the PRIMARY KEY: the row
\* that conflicts on key is deleted, then the new row is inserted.
InsertOrReplace(tbl, row) == DeleteByKey(tbl, row.key) \cup {row}

\* The expiry test that reads the hour of the text and ignores its offset.
ExpiredIgnoringOffset(e, t) ==
    /\ e.expires_at # None
    /\ ParseRfc3339(e.expires_at[1]) # None
    /\ e.expires_at[1][1] - 48 < t

\* The expiry test that is reversed.
ExpiredReversed(e, t) ==
    /\ e.expires_at # None
    /\ ParseRfc3339(e.expires_at[1]) # None
    /\ ParseRfc3339(e.expires_at[1])[1] > t

\* The expiry test that is not strict: expires <= Utc::now().
ExpiredInclusive(e, t) ==
    /\ e.expires_at # None
    /\ ParseRfc3339(e.expires_at[1]) # None
    /\ ParseRfc3339(e.expires_at[1])[1] <= t

\* The expiry test of offline_get_cache_entry at the current time t:
\* expires_at is set, parses as RFC3339, and expires < Utc::now().
Expired(e, t) ==
    /\ e.expires_at # None
    /\ ParseRfc3339(e.expires_at[1]) # None
    /\ ParseRfc3339(e.expires_at[1])[1] < t

\* ---------------------------------------------------------- QueuedRequest
QueueIds == {"q1", "q2", "q3"}

\* A serializer of the headers that writes no header.
HeadersToJsonEmpty(h) == <<123, 125>>

\* serde_json::to_string of a HashMap<String, String> with at most one
\* header, a set of <<name, value>> pairs of one-byte texts: {} or {"n":"v"}.
HeadersToJson(h) ==
    IF h = {} THEN <<123, 125>>
    ELSE LET p == CHOOSE x \in h : TRUE
         IN <<123, 34, p[1], 34, 58, 34, p[2], 34, 125>>

\* serde_json::from_str::<HashMap<String, String>>: Some(map), or None (Err).
HeadersFromJson(txt) ==
    IF txt = <<123, 125>> THEN Some({})
    ELSE IF /\ Len(txt) = 9
            /\ <<txt[1], txt[2], txt[4], txt[5], txt[6], txt[8], txt[9]>>
                 = <<123, 34, 34, 58, 34, 34, 125>>
            /\ txt[3] # 34 /\ txt[7] # 34
         THEN Some({<<txt[3], txt[7]>>})
         ELSE None

\* The requests the callers enqueue, without their id: created_at is "1Z"
\* (instant 1), "2Z" (instant 2) or "3+2" (instant 1, the greatest text).
RequestShapes ==
    { [method |-> "POST", path |-> "/api/leaves", payload |-> JNum(1),
       headers |-> None, created_at |-> TextZ(1)],
      [method |-> "PUT", path |-> "/api/leaves/1", payload |-> JStr(1),
       headers |-> Some({<<65, 116>>}), created_at |-> TextZ(2)],
      [method |-> "POST", path |-> "/api/leaves", payload |-> JNull,
       headers |-> Some({}), created_at |-> TextOff(3, 2)] }

\* struct QueuedRequest.
QueuedRequest(i, sh) ==
    [id |-> i, method |-> sh.method, path |-> sh.path,
     payload |-> sh.payload, headers |-> sh.headers,
     created_at |-> sh.created_at]

QueuedRequests == {QueuedRequest(i, sh) : i \in QueueIds, sh \in RequestShapes}

\* The row the INSERT of offline_enqueue_request binds: payload_str and
\* headers_str (NULL for absent headers), the other fields as they are.
QueueRow(r) ==
    [id |-> r.id, method |-> r.method, path |-> r.path,
     payload |-> ToJson(r.payload),
     headers |-> IF r.headers = None THEN None
                 ELSE Some(HeadersToJson(r.headers[1])),
     created_at |-> r.created_at]

\* The row closure of offline_get_queued_requests: Some(request), or None
\* when the payload text does not deserialize; a headers text that does not
\* deserialize becomes absent headers (.ok()).
RequestOfRow(row) ==
    IF FromJson(row.payload) = None THEN None
    ELSE Some([id |-> row.id, method |-> row.method, path |-> row.path,
               payload |-> FromJson(row.payload)[1],
               headers |-> IF row.headers = None THEN None
                           ELSE HeadersFromJson(row.headers[1]),
               created_at |-> row.created_at])

\* ------------------------------------------------ table offline_queue (SQL)
\* The place of a new row in a listing sorted by created_at: before the first
\* row whose created_at is greater, so after the rows of equal created_at.
RECURSIVE InsertSorted(_, _)
InsertSorted(sorted, row) ==
    IF sorted = <<>> THEN <<row>>
    ELSE IF TextLess(row.created_at, Head(sorted).created_at)
         THEN <<row>> \o sorted
         ELSE <<Head(sorted)>> \o InsertSorted(Tail(sorted), row)

\* A listing with no ORDER BY: the rows in rowid order.
OrderByRowid(rows) == rows

\* ORDER BY created_at DESC.
RECURSIVE InsertSortedDesc(_, _)
InsertSortedDesc(sorted, row) ==
    IF sorted = <<>> THEN <<row>>
    ELSE IF TextLess(Head(sorted).created_at, row.created_at)
         THEN <<row>> \o sorted
         ELSE <<Head(sorted)>> \o InsertSortedDesc(Tail(sorted), row)

RECURSIVE OrderByCreatedAtDesc(_)
OrderByCreatedAtDesc(rows) ==
    IF rows = <<>> THEN <<>>
    ELSE InsertSortedDesc(OrderByCreatedAtDesc(SubSeq(rows, 1, Len(rows) - 1)),
                          rows[Len(rows)])

\* SELECT ... FROM offline_queue ORDER BY created_at ASC over the rows in
\* rowid order: ascending by the BINARY collation of the created_at text;
\* rows of equal created_at stay in rowid order, as in the index
\* idx_queue_created, whose entries are (created_at, rowid).
RECURSIVE OrderByCreatedAt(_)
OrderByCreatedAt(rows) ==
    IF rows = <<>> THEN <<>>
    ELSE InsertSorted(OrderByCreatedAt(SubSeq(rows, 1, Len(rows) - 1)),
                      rows[Len(rows)])

\* SELECT ... FROM offline_queue WHERE id = ?: the row of an id, if any.
SelectById(rows, i) ==
    IF \E n \in 1..Len(rows) : rows[n].id = i
    THEN Some(rows[CHOOSE n \in 1..Len(rows) : rows[n].id = i])
    ELSE None

\* A DELETE that removes the oldest row instead of the row of the id.
DeleteHead(rows, i) ==
    IF rows = <<>> THEN <<>> ELSE Tail(rows)

\* DELETE FROM offline_queue WHERE id = ?
RECURSIVE DeleteById(_, _)
DeleteById(rows, i) ==
    IF rows = <<>> THEN <<>>
    ELSE IF Head(rows).id = i THEN DeleteById(Tail(rows), i)
         ELSE <<Head(rows)>> \o DeleteById(Tail(rows), i)

\* Every row of a listing through the row closure (query_map).
MapRows(rows) == [i \in 1..Len(rows) |-> RequestOfRow(rows[i])]

\* ------------------------------------------------------------------ state
Callers == {"c1", "c2"}

VARIABLES
    cache,      \* table cache_entries: a set of rows
    queue,      \* table offline_queue: its rows in rowid (insertion) order
    now,        \* Utc::now()
    pc,         \* per caller: "idle", "open", "selected", "done"
    op,         \* per caller: the command it runs
    key,        \* per caller: the key or id argument ("" when none)
    input,      \* per caller: the entry or request argument (Option)
    entry,      \* per caller: offline_get_cache_entry's local `entry`
    ret,        \* per caller: the Result the command returned
    lastSet,    \* history: per key, the entry the last statement on it wrote
    pre         \* history: per caller, lastSet of its key when it accessed it
                \* (cache), the row of its id before its statement (queue),
                \* the rows its SELECT returned (list_pending), the cache
                \* table before its statement (clear_all)

\* The caller that drains the queue (the replay policy above the commands).
VARIABLES
    dpc,        \* per caller: "rest", "listing", "replaying", "dequeuing",
                \* "failed", "finished"
    listed,     \* per caller: the listing its drain pass works on
    idx,        \* per caller: the place in `listed` of the item it resends
    log,        \* per caller: the ids it has resent in its pass, in order
    made,       \* the ids the callers have given to requests
    delivered   \* history: per id, the resends of it that succeeded

dvars == <<dpc, listed, idx, log, made, delivered>>

\* The file offline-cache.db and the process.
VARIABLES
    schema,     \* the tables that exist in offline-cache.db
    disk,       \* "ok"; "down": the directory cannot be created or the file
                \* cannot be opened; "failing": a statement that writes fails
    boots       \* history: the restarts of the process so far

\* AppState and the token file (commands/api.rs).
VARIABLES
    auth,       \* AppState.auth_token (Option)
    tokfile,    \* the content of auth_token.enc (Option: None is no file)
    apc,        \* the session command: "idle", "sent", "done"
    aop,        \* the session command that runs
    aret,       \* what the session command returned
    outSince,   \* history: api_logout has returned since the request in
                \* flight was sent
    base,       \* AppState.api_base_url
    url         \* the api_base_url argument of the api_login in flight

tvars == <<auth, tokfile, apc, aop, aret, outSince, base, url>>

\* The file hr-portal-encrypted.db and Database::new (database.rs).
VARIABLES
    versions,   \* table schema_migrations: its version column, in rowid order
    objects,    \* the tables, indexes and sync_metadata rows of the file
    mpc,        \* the statement Database::new is at (0: it does not run)
    applied,    \* run_migrations' local `applied`
    dbret,      \* what the last Database::new came to: "", "ok", "err",
                \* "killed"
    runs,       \* history: the runs of Database::new so far
    cutAt,      \* history: the statement before which a run was last cut
    redone      \* history: the migrations of which a statement was executed
                \* while their version row existed

mvars == <<versions, objects, mpc, applied, dbret, runs, cutAt, redone>>

\* What the steps of the offline commands leave alone: all of it, or all but
\* the schema for the step that runs get_offline_db.
xvars == <<disk, boots, tvars, mvars>>
evars == <<dvars, xvars>>
nvars == <<schema, dvars, xvars>>

vars == <<cache, queue, now, pc, op, key, input, entry, ret, lastSet, pre,
          dpc, listed, idx, log, made, delivered,
          schema, disk, boots, auth, tokfile, apc, aop, aret, outSince,
          base, url,
          versions, objects, mpc, applied, dbret, runs, cutAt, redone>>

\* Result<T, String>: Ok(val) or Err(err).
Ok(v) == [ok |-> TRUE, val |-> v, err |-> ""]
Err(msg) == [ok |-> FALSE, val |-> <<>>, err |-> msg]
NoRet == [ok |-> TRUE, val |-> <<>>, err |-> "pending"]

Init ==
    /\ cache = {}
    /\ queue = <<>>
    /\ now = 0
    /\ pc = [t \in Callers |-> "idle"]
    /\ op = [t \in Callers |-> ""]
    /\ key = [t \in Callers |-> ""]
    /\ input = [t \in Callers |-> None]
    /\ entry = [t \in Callers |-> None]
    /\ ret = [t \in Callers |-> NoRet]
    /\ lastSet = [k \in Keys |-> None]
    /\ pre = [t \in Callers |-> None]
    /\ dpc = [t \in Callers |-> "rest"]
    /\ listed = [t \in Callers |-> <<>>]
    /\ idx = [t \in Callers |-> 0]
    /\ log = [t \in Callers |-> <<>>]
    /\ made = {}
    /\ delivered = [i \in QueueIds |-> 0]
    /\ schema = {}
    /\ disk = "ok"
    /\ boots = 0
    /\ auth = None
    /\ tokfile = None
    /\ apc = "idle"
    /\ aop = ""
    /\ aret = [kind |-> "", ok |-> FALSE, status |-> 0, token |-> None,
               sent |-> None]
    /\ outSince = FALSE
    /\ base = "u0"
    /\ url = ""
    /\ versions = <<>>
    /\ objects = {}
    /\ mpc = 0
    /\ applied = {}
    /\ dbret = ""
    /\ runs = 0
    /\ cutAt = 0
    /\ redone = {}

\* The clock advances.
Tick ==
    /\ now < MaxTime
    /\ now' = now + 1
    /\ UNCHANGED <<cache, queue, pc, op, key, input, entry, ret, lastSet, pre>>

\* The command returns to its caller.
Finish(t, r) ==
    /\ pc' = [pc EXCEPT ![t] = "done"]
    /\ ret' = [ret EXCEPT ![t] = r]

\* The tables of offline-cache.db.
Tables == {"cache_entries", "offline_queue"}

\* CREATE TABLE without IF NOT EXISTS after a DROP: the table is made anew.
CreateTable(name, rows, empty) == empty

\* CREATE TABLE IF NOT EXISTS: a table that exists keeps its rows.
CreateTableIfNotExists(name, rows, empty) ==
    IF name \in schema THEN rows ELSE empty

\* A get_offline_db whose failure is taken for success: the command returns
\* Ok with nothing done.
InvokeSwallow(t, o, k, in) ==
    /\ pc[t] = "idle"
    /\ op' = [op EXCEPT ![t] = o]
    /\ key' = [key EXCEPT ![t] = k]
    /\ input' = [input EXCEPT ![t] = in]
    /\ IF disk = "down"
       THEN /\ Finish(t, Ok(<<>>))
            /\ UNCHANGED <<cache, queue, schema>>
       ELSE /\ pc' = [pc EXCEPT ![t] = "open"]
            /\ schema' = schema \cup Tables
            /\ cache' = CreateTableIfNotExists("cache_entries", cache, {})
            /\ queue' = CreateTableIfNotExists("offline_queue", queue, <<>>)
            /\ UNCHANGED ret
    /\ UNCHANGED <<now, entry, lastSet, pre>>

\* A command is invoked and runs get_offline_db: create_dir_all and
\* Connection::open, whose failure the command returns as Err, then the
\* schema statements (CREATE ... IF NOT EXISTS), which change no row.
Invoke(t, o, k, in) ==
    /\ pc[t] = "idle"
    /\ op' = [op EXCEPT ![t] = o]
    /\ key' = [key EXCEPT ![t] = k]
    /\ input' = [input EXCEPT ![t] = in]
    /\ IF disk = "down"
       THEN /\ Finish(t, Err("unable to open database file"))
            /\ UNCHANGED <<cache, queue, schema>>
       ELSE /\ pc' = [pc EXCEPT ![t] = "open"]
            /\ schema' = schema \cup Tables
            /\ cache' = CreateTableIfNotExists("cache_entries", cache, {})
            /\ queue' = CreateTableIfNotExists("offline_queue", queue, <<>>)
            /\ UNCHANGED ret
    /\ UNCHANGED <<now, entry, lastSet, pre>>

\* The caller takes the result; the invocation is over.
Return(t) ==
    /\ pc[t] = "done"
    /\ pc' = [pc EXCEPT ![t] = "idle"]
    /\ op' = [op EXCEPT ![t] = ""]
    /\ key' = [key EXCEPT ![t] = ""]
    /\ input' = [input EXCEPT ![t] = None]
    /\ entry' = [entry EXCEPT ![t] = None]
    /\ ret' = [ret EXCEPT ![t] = NoRet]
    /\ pre' = [pre EXCEPT ![t] = None]
    /\ UNCHANGED <<cache, queue, now, lastSet>>

\* ------------------------------------------------------- cache commands
\* offline_get_cache_entry(key): invoked.
GetCall(t) == \E k \in Keys : Invoke(t, "get", k, None)

\* A get that does not match QueryReturnedNoRows: no row returns Err.
GetSelectNoRowsErr(t) ==
    /\ pc[t] = "open" /\ op[t] = "get"
    /\ pre' = [pre EXCEPT ![t] = lastSet[key[t]]]
    /\ IF SelectByKey(cache, key[t]) = {}
       THEN /\ Finish(t, Err("Query returned no rows"))
            /\ UNCHANGED entry
       ELSE /\ \E r \in SelectByKey(cache, key[t]) :
                  entry' = [entry EXCEPT ![t] = CacheEntryOfRow(r)]
            /\ pc' = [pc EXCEPT ![t] = "selected"]
            /\ UNCHANGED ret
    /\ UNCHANGED <<cache, queue, now, op, key, input, lastSet>>

\* offline_get_cache_entry: stmt.query_row; a row that does not deserialize
\* returns Err, no row leaves `entry` None.
GetSelect(t) ==
    /\ pc[t] = "open" /\ op[t] = "get"
    /\ pre' = [pre EXCEPT ![t] = lastSet[key[t]]]
    /\ IF \E r \in SelectByKey(cache, key[t]) : CacheEntryOfRow(r) = None
       THEN /\ Finish(t, Err("InvalidColumnType"))
            /\ UNCHANGED entry
       ELSE /\ \/ /\ SelectByKey(cache, key[t]) = {}
                  /\ entry' = [entry EXCEPT ![t] = None]
               \/ \E r \in SelectByKey(cache, key[t]) :
                     entry' = [entry EXCEPT ![t] = CacheEntryOfRow(r)]
            /\ pc' = [pc EXCEPT ![t] = "selected"]
            /\ UNCHANGED ret
    /\ UNCHANGED <<cache, queue, now, op, key, input, lastSet>>

\* A get that deletes every row whose expiry has passed, not the row of its
\* key alone.
GetFinishPurging(t) ==
    /\ pc[t] = "selected" /\ op[t] = "get"
    /\ cache' = {r \in cache : ~Expired(r, now)}
    /\ lastSet' = [k \in Keys |->
                     IF SelectByKey(cache', k) = {} THEN None ELSE lastSet[k]]
    /\ IF entry[t] # None /\ Expired(entry[t][1], now)
       THEN Finish(t, Ok(None))
       ELSE Finish(t, Ok(entry[t]))
    /\ UNCHANGED <<queue, now, op, key, input, entry, pre>>

\* offline_get_cache_entry: the expiry check against Utc::now(); an expired
\* entry is deleted by key and None is returned, else `entry` is returned.
GetFinish(t) ==
    /\ pc[t] = "selected" /\ op[t] = "get"
    /\ IF entry[t] # None /\ Expired(entry[t][1], now)
       THEN /\ cache' = DeleteByKey(cache, key[t])
            /\ lastSet' = [lastSet EXCEPT ![key[t]] = None]
            /\ Finish(t, Ok(None))
       ELSE /\ Finish(t, Ok(entry[t]))
            /\ UNCHANGED <<cache, lastSet>>
    /\ UNCHANGED <<queue, now, op, key, input, entry, pre>>

\* offline_set_cache_entry(entry): invoked.
SetCall(t) == \E e \in CacheEntries : Invoke(t, "set", e.key, Some(e))

\* offline_set_cache_entry: the INSERT OR REPLACE.
SetExec(t) ==
    /\ pc[t] = "open" /\ op[t] = "set"
    /\ cache' = InsertOrReplace(cache, CacheRow(input[t][1]))
    /\ lastSet' = [lastSet EXCEPT
                     ![key[t]] = Some([e |-> input[t][1], at |-> now])]
    /\ pre' = [pre EXCEPT ![t] = lastSet[key[t]]]
    /\ Finish(t, Ok(<<>>))
    /\ UNCHANGED <<queue, now, op, key, input, entry>>

\* offline_clear_cache_entry(key): invoked.
ClearCall(t) == \E k \in Keys : Invoke(t, "clear", k, None)

\* offline_clear_cache_entry: DELETE ... WHERE key = ?
ClearExec(t) ==
    /\ pc[t] = "open" /\ op[t] = "clear"
    /\ cache' = DeleteByKey(cache, key[t])
    /\ lastSet' = [lastSet EXCEPT ![key[t]] = None]
    /\ pre' = [pre EXCEPT ![t] = lastSet[key[t]]]
    /\ Finish(t, Ok(<<>>))
    /\ UNCHANGED <<queue, now, op, key, input, entry>>

\* offline_clear_all_cache: invoked.
ClearAllCall(t) == Invoke(t, "clear_all", "", None)

\* A clear_all of the cache that deletes the rows of the queue too.
ClearAllExecBoth(t) ==
    /\ pc[t] = "open" /\ op[t] = "clear_all"
    /\ cache' = {}
    /\ queue' = <<>>
    /\ lastSet' = [k \in Keys |-> None]
    /\ pre' = [pre EXCEPT ![t] = Some(cache)]
    /\ Finish(t, Ok(<<>>))
    /\ UNCHANGED <<now, op, key, input, entry>>

\* A clear_all that deletes the rows that have an expiry only.
ClearAllExecExpiring(t) ==
    /\ pc[t] = "open" /\ op[t] = "clear_all"
    /\ cache' = {r \in cache : r.expires_at = None}
    /\ lastSet' = [k \in Keys |->
                     IF SelectByKey(cache', k) = {} THEN None ELSE lastSet[k]]
    /\ pre' = [pre EXCEPT ![t] = Some(cache)]
    /\ Finish(t, Ok(<<>>))
    /\ UNCHANGED <<queue, now, op, key, input, entry>>

\* offline_clear_all_cache: DELETE FROM cache_entries.
ClearAllExec(t) ==
    /\ pc[t] = "open" /\ op[t] = "clear_all"
    /\ cache' = {}
    /\ lastSet' = [k \in Keys |-> None]
    /\ pre' = [pre EXCEPT ![t] = Some(cache)]
    /\ Finish(t, Ok(<<>>))
    /\ UNCHANGED <<queue, now, op, key, input, entry>>

\* Entries of one key whose expires_at is a text that is no RFC3339 time
\* ("soon", here the bytes "s" "n"), "1Z" (instant 1) or "3+1" (instant 2).
OddShapes ==
    { [method |-> "GET", path |-> "/api/leaves", response |-> JStr(1),
       timestamp |-> TextZ(0), expires_at |-> Some(<<115, 110>>)],
      [method |-> "GET", path |-> "/api/leaves", response |-> JNum(1),
       timestamp |-> TextZ(0), expires_at |-> Some(TextZ(1))],
      [method |-> "GET", path |-> "/api/leaves", response |-> JNull,
       timestamp |-> TextZ(0), expires_at |-> Some(TextOff(3, 1))] }

OddEntries == {CacheEntry("k1", sh) : sh \in OddShapes}

\* offline_set_cache_entry(entry) of such an entry: invoked.
SetOddCall(t) == \E e \in OddEntries : Invoke(t, "set", e.key, Some(e))

\* get and set of entries whose expires_at is any text, by two callers,
\* while the clock advances.
ExpiryNext ==
    \/ Tick /\ UNCHANGED nvars
    \/ \E t \in Callers :
          \/ GetCall(t) /\ UNCHANGED evars
          \/ GetSelect(t) /\ UNCHANGED nvars
          \/ GetFinish(t) /\ UNCHANGED nvars
          \/ SetOddCall(t) /\ UNCHANGED evars
          \/ SetExec(t) /\ UNCHANGED nvars
          \/ Return(t) /\ UNCHANGED nvars

ExpirySpec == Init /\ [][ExpiryNext]_vars

CacheNext ==
    \/ Tick /\ UNCHANGED nvars
    \/ \E t \in Callers :
          \/ GetCall(t) /\ UNCHANGED evars
          \/ GetSelect(t) /\ UNCHANGED nvars
          \/ GetFinish(t) /\ UNCHANGED nvars
          \/ SetCall(t) /\ UNCHANGED evars
          \/ SetExec(t) /\ UNCHANGED nvars
          \/ ClearCall(t) /\ UNCHANGED evars
          \/ ClearExec(t) /\ UNCHANGED nvars
          \/ ClearAllCall(t) /\ UNCHANGED evars
          \/ ClearAllExec(t) /\ UNCHANGED nvars
          \/ Return(t) /\ UNCHANGED nvars

\* The cache commands under concurrent callers.
CacheSpec == Init /\ [][CacheNext]_vars

\* ------------------------------------------------------- queue commands
\* offline_enqueue_request(request): invoked.
EnqueueCall(t) == \E r \in QueuedRequests : Invoke(t, "enqueue", r.id, Some(r))

\* An enqueue whose statement is INSERT OR REPLACE.
EnqueueExecReplace(t) ==
    /\ pc[t] = "open" /\ op[t] = "enqueue"
    /\ pre' = [pre EXCEPT ![t] = SelectById(queue, key[t])]
    /\ queue' = Append(DeleteById(queue, key[t]), QueueRow(input[t][1]))
    /\ Finish(t, Ok(<<>>))
    /\ UNCHANGED <<cache, now, op, key, input, entry, lastSet>>

\* offline_enqueue_request: the INSERT; id is the PRIMARY KEY, so a row with
\* an id that is present fails the statement (UNIQUE constraint).
EnqueueExec(t) ==
    /\ pc[t] = "open" /\ op[t] = "enqueue"
    /\ pre' = [pre EXCEPT ![t] = SelectById(queue, key[t])]
    /\ IF \E i \in 1..Len(queue) : queue[i].id = key[t]
       THEN /\ Finish(t, Err("UNIQUE constraint failed: offline_queue.id"))
            /\ UNCHANGED queue
       ELSE /\ queue' = Append(queue, QueueRow(input[t][1]))
            /\ Finish(t, Ok(<<>>))
    /\ UNCHANGED <<cache, now, op, key, input, entry, lastSet>>

\* offline_get_queued_requests: invoked.
ListCall(t) == Invoke(t, "list_pending", "", None)

\* A listing that takes the rows it returns out of the table.
ListExecConsuming(t) ==
    /\ pc[t] = "open" /\ op[t] = "list_pending"
    /\ pre' = [pre EXCEPT ![t] = Some(OrderByCreatedAt(queue))]
    /\ LET rows == MapRows(OrderByCreatedAt(queue))
       IN IF \E i \in 1..Len(rows) : rows[i] = None
          THEN Finish(t, Err("InvalidColumnType")) /\ UNCHANGED queue
          ELSE /\ Finish(t, Ok([i \in 1..Len(rows) |-> rows[i][1]]))
               /\ queue' = <<>>
    /\ UNCHANGED <<cache, now, op, key, input, entry, lastSet>>

\* offline_get_queued_requests: the SELECT and the loop over its rows; the
\* first row that does not deserialize returns Err.
ListExec(t) ==
    /\ pc[t] = "open" /\ op[t] = "list_pending"
    /\ pre' = [pre EXCEPT ![t] = Some(OrderByCreatedAt(queue))]
    /\ LET rows == MapRows(OrderByCreatedAt(queue))
       IN IF \E i \in 1..Len(rows) : rows[i] = None
          THEN Finish(t, Err("InvalidColumnType"))
          ELSE Finish(t, Ok([i \in 1..Len(rows) |-> rows[i][1]]))
    /\ UNCHANGED <<cache, queue, now, op, key, input, entry, lastSet>>

\* offline_dequeue_request(id): invoked.
DequeueCall(t) == \E i \in QueueIds : Invoke(t, "dequeue", i, None)

\* offline_dequeue_request: DELETE ... WHERE id = ?
DequeueExec(t) ==
    /\ pc[t] = "open" /\ op[t] = "dequeue"
    /\ queue' = DeleteById(queue, key[t])
    /\ pre' = [pre EXCEPT ![t] = SelectById(queue, key[t])]
    /\ Finish(t, Ok(<<>>))
    /\ UNCHANGED <<cache, now, op, key, input, entry, lastSet>>

\* offline_clear_queue: invoked.
ClearQueueCall(t) == Invoke(t, "clear_queue", "", None)

\* offline_clear_queue: DELETE FROM offline_queue.
ClearQueueExec(t) ==
    /\ pc[t] = "open" /\ op[t] = "clear_queue"
    /\ queue' = <<>>
    /\ Finish(t, Ok(<<>>))
    /\ UNCHANGED <<cache, now, op, key, input, entry, lastSet, pre>>

QueueNext ==
    \E t \in Callers :
       \/ EnqueueCall(t) /\ UNCHANGED evars
       \/ EnqueueExec(t) /\ UNCHANGED nvars
       \/ ListCall(t) /\ UNCHANGED evars
       \/ ListExec(t) /\ UNCHANGED nvars
       \/ DequeueCall(t) /\ UNCHANGED evars
       \/ DequeueExec(t) /\ UNCHANGED nvars
       \/ ClearQueueCall(t) /\ UNCHANGED evars
       \/ ClearQueueExec(t) /\ UNCHANGED nvars
       \/ Return(t) /\ UNCHANGED nvars

\* The queue commands under concurrent callers.
QueueSpec == Init /\ [][QueueNext]_vars

\* The commands of both stores, one call at a time: caller c1 alone. The
\* clock stands still here (CacheSpec has the passing of time).
SeqNext ==
    \E t \in {"c1"} :
       \/ GetCall(t) /\ UNCHANGED evars
       \/ GetSelect(t) /\ UNCHANGED nvars
       \/ GetFinish(t) /\ UNCHANGED nvars
       \/ SetCall(t) /\ UNCHANGED evars
       \/ SetExec(t) /\ UNCHANGED nvars
       \/ ClearCall(t) /\ UNCHANGED evars
       \/ ClearExec(t) /\ UNCHANGED nvars
       \/ ClearAllCall(t) /\ UNCHANGED evars
       \/ ClearAllExec(t) /\ UNCHANGED nvars
       \/ EnqueueCall(t) /\ UNCHANGED evars
       \/ EnqueueExec(t) /\ UNCHANGED nvars
       \/ ListCall(t) /\ UNCHANGED evars
       \/ ListExec(t) /\ UNCHANGED nvars
       \/ DequeueCall(t) /\ UNCHANGED evars
       \/ DequeueExec(t) /\ UNCHANGED nvars
       \/ ClearQueueCall(t) /\ UNCHANGED evars
       \/ ClearQueueExec(t) /\ UNCHANGED nvars
       \/ Return(t) /\ UNCHANGED nvars

SeqSpec == Init /\ [][SeqNext]_vars

\* ------------------------------------------------- storage and the process
\* The directory can no longer be created or the file no longer be opened.
StorageDown ==
    /\ disk = "ok"
    /\ disk' = "down"
    /\ UNCHANGED <<cache, queue, now, pc, op, key, input, entry, ret, lastSet,
                   pre, schema, dvars, boots, tvars, mvars>>

\* The storage can be opened again.
StorageUp ==
    /\ disk = "down"
    /\ disk' = "ok"
    /\ UNCHANGED <<cache, queue, now, pc, op, key, input, entry, ret, lastSet,
                   pre, schema, dvars, boots, tvars, mvars>>

\* The process is restarted: main builds its state anew, the commands that
\* ran are gone, the files stay as they are.
Restart ==
    /\ boots < MaxBoots
    /\ boots' = boots + 1
    /\ pc' = [t \in Callers |-> "idle"]
    /\ op' = [t \in Callers |-> ""]
    /\ key' = [t \in Callers |-> ""]
    /\ input' = [t \in Callers |-> None]
    /\ entry' = [t \in Callers |-> None]
    /\ ret' = [t \in Callers |-> NoRet]
    /\ pre' = [t \in Callers |-> None]
    /\ auth' = None
    /\ apc' = "idle"
    /\ aop' = ""
    /\ aret' = [kind |-> "", ok |-> FALSE, status |-> 0, token |-> None,
                sent |-> None]
    /\ outSince' = FALSE
    /\ base' = "u0"
    /\ url' = ""
    /\ UNCHANGED <<cache, queue, now, lastSet, schema, disk, tokfile, dvars,
                   mvars>>

\* The offline commands of one caller, a storage that comes and goes, and
\* restarts of the process.
StorageNext ==
    \/ SeqNext
    \/ StorageDown
    \/ StorageUp
    \/ Restart

StorageSpec == Init /\ [][StorageNext]_vars

\* Statements that write begin to fail (a full or read-only disk).
WritesFail ==
    /\ disk = "ok"
    /\ disk' = "failing"
    /\ UNCHANGED <<cache, queue, now, pc, op, key, input, entry, ret, lastSet,
                   pre, schema, dvars, boots, tvars, mvars>>

\* Statements that write work again.
WritesWork ==
    /\ disk = "failing"
    /\ disk' = "ok"
    /\ UNCHANGED <<cache, queue, now, pc, op, key, input, entry, ret, lastSet,
                   pre, schema, dvars, boots, tvars, mvars>>

\* The statement of set or clear fails: conn.execute(...).map_err(...)?
\* returns Err and no row is written.
WriteFails(t) ==
    /\ pc[t] = "open" /\ op[t] \in {"set", "clear", "clear_all"}
    /\ disk = "failing"
    /\ Finish(t, Err("disk I/O error"))
    /\ UNCHANGED <<cache, queue, now, op, key, input, entry, lastSet, pre>>

\* offline_get_cache_entry: the DELETE of the expired entry fails; its
\* result is dropped (let _ =) and Ok(None) is returned.
GetDeleteFails(t) ==
    /\ pc[t] = "selected" /\ op[t] = "get"
    /\ entry[t] # None /\ Expired(entry[t][1], now)
    /\ disk = "failing"
    /\ Finish(t, Ok(None))
    /\ UNCHANGED <<cache, queue, now, op, key, input, entry, lastSet, pre>>

\* The cache commands of one caller on a disk whose writes can fail.
FailNext ==
    \/ Tick /\ UNCHANGED nvars
    \/ WritesFail
    \/ WritesWork
    \/ \E t \in {"c1"} :
          \/ GetCall(t) /\ UNCHANGED evars
          \/ GetSelect(t) /\ UNCHANGED nvars
          \/ GetFinish(t) /\ UNCHANGED nvars
          \/ GetDeleteFails(t) /\ UNCHANGED nvars
          \/ SetCall(t) /\ UNCHANGED evars
          \/ SetExec(t) /\ UNCHANGED nvars
          \/ ClearCall(t) /\ UNCHANGED evars
          \/ ClearExec(t) /\ UNCHANGED nvars
          \/ ClearAllCall(t) /\ UNCHANGED evars
          \/ ClearAllExec(t) /\ UNCHANGED nvars
          \/ WriteFails(t) /\ UNCHANGED nvars
          \/ Return(t) /\ UNCHANGED nvars

FailSpec == Init /\ [][FailNext]_vars

\* A stored text that serde_json::from_str rejects: "{".
BadText == <<123>>

\* The payload text of a queue row is damaged in the file; one row at most.
CorruptPayload ==
    /\ \A i \in 1..Len(queue) : FromJson(queue[i].payload) # None
    /\ \E i \in 1..Len(queue) :
          queue' = [queue EXCEPT ![i].payload = BadText]
    /\ UNCHANGED <<cache, now, pc, op, key, input, entry, ret, lastSet, pre,
                   nvars>>

\* The response text of a cache row is damaged in the file; one row at most.
CorruptResponse ==
    /\ \A r \in cache : FromJson(r.response) # None
    /\ \E r \in cache :
          cache' = (cache \ {r}) \cup {[r EXCEPT !.response = BadText]}
    /\ UNCHANGED <<queue, now, pc, op, key, input, entry, ret, lastSet, pre,
                   nvars>>

\* The offline commands of one caller over a file whose texts get damaged.
CorruptNext ==
    \/ SeqNext
    \/ CorruptPayload
    \/ CorruptResponse

CorruptSpec == Init /\ [][CorruptNext]_vars

\* --------------------------------------------- session token (api.rs)
Tokens == {"t1", "t2"}

\* The nonces Aes256Gcm::generate_nonce draws.
Nonces == {0, 1}

\* encrypt_token: base64 of the nonce and the AES-256-GCM ciphertext.
EncryptToken(tk, n) == [fmt |-> "aes", nonce |-> n, token |-> tk]

\* A file that is neither an encrypted token nor one of the legacy format
\* (fmt "b64", base64 of the token).
DamagedText == [fmt |-> "bad", nonce |-> 0, token |-> ""]

\* decrypt_token: Some(token), or None (Err).
DecryptToken(txt) == IF txt.fmt = "aes" THEN Some(txt.token) ELSE None

\* load_auth_token: Ok(None) with no file, Ok(Some(token)) for a file of the
\* new or the legacy format, Err for any other file.
LoadAuthToken(file) ==
    IF file = None THEN Ok(None)
    ELSE IF DecryptToken(file[1]) # None THEN Ok(DecryptToken(file[1]))
    ELSE IF file[1].fmt = "b64" THEN Ok(Some(file[1].token))
    ELSE Err("Failed to decrypt or decode auth token")

\* What the server answers to /api/auth/login and /api/auth/refresh: ok with
\* a token, ok with no token, not ok; status 0 is a request that failed.
Responses ==
    {[ok |-> TRUE, status |-> 200, token |-> Some(tk)] : tk \in Tokens}
       \cup {[ok |-> TRUE, status |-> 200, token |-> None],
             [ok |-> FALSE, status |-> 401, token |-> None],
             [ok |-> FALSE, status |-> 0, token |-> None]}

\* store_auth_token(token) on the file: "written" returns Ok; it returns Err
\* with the file as it was (path or encryption failed), damaged (fs::write
\* failed part way) or written (set_permissions failed).
StoreOutcomes == {"written", "unchanged", "damaged", "written_err"}

StoreAuthToken(file, tk, n, o) ==
    IF o \in {"written", "written_err"} THEN Some(EncryptToken(tk, n))
    ELSE IF o = "damaged" THEN Some(DamagedText)
    ELSE file

\* clear_auth_token on the file: "removed" returns Ok, "kept" is a
\* remove_file that failed.
ClearOutcomes == {"removed", "kept"}

ClearAuthToken(file, o) == IF o = "removed" THEN None ELSE file

\* What a session command returns: Ok(ApiResponse), Ok({"success": true}),
\* Ok({"hasToken": b}) or Err(String); `sent` is the Authorization header of
\* the request it made.
SessionRet(k, good, st, tk, snt) ==
    [kind |-> k, ok |-> good, status |-> st, token |-> tk, sent |-> snt]

NoSessionRet == SessionRet("", FALSE, 0, None, None)

\* api_login and api_refresh: api_request is sent (the await).
SessionSend(o) ==
    /\ apc = "idle"
    /\ apc' = "sent"
    /\ aop' = o
    /\ UNCHANGED <<auth, tokfile, aret, base>>

\* The URLs api_login is given; "u0" is the URL main starts with.
LoginUrls == {"u1", "u2"}

\* The limits of api_login on the lengths of email and password.
MaxEmailLen == 255
MaxPasswordLen == 1000

\* A text of n bytes "a".
Pad(n) == [i \in 1..n |-> 97]

\* The regex ^[^\s@]+@[^\s@]+\.[^\s@]+$ : no white space, one "@" that is
\* not the first byte, and a "." after it that is neither next to it nor the
\* last byte.
IsEmail(s) ==
    /\ \A i \in 1..Len(s) : s[i] \notin {9, 10, 11, 12, 13, 32}
    /\ Cardinality({i \in 1..Len(s) : s[i] = 64}) = 1
    /\ LET at == CHOOSE i \in 1..Len(s) : s[i] = 64
       IN /\ at >= 2
          /\ \E j \in (at + 2)..(Len(s) - 1) : s[j] = 46

\* The input validation of api_login.
ValidLogin(email, password) ==
    /\ email # <<>> /\ Len(email) <= MaxEmailLen
    /\ IsEmail(email)
    /\ password # <<>> /\ Len(password) <= MaxPasswordLen

\* The emails and passwords api_login is given: "a@b.c", an address of
\* MaxEmailLen bytes, and the empty text, an address one byte longer,
\* "ab.c", "a @b.c", "a@bc", "a@b."; "p", a password of MaxPasswordLen
\* bytes, the empty text and a password one byte longer.
Emails ==
    { <<97, 64, 98, 46, 99>>,
      Pad(MaxEmailLen - 4) \o <<64, 98, 46, 99>>,
      <<>>,
      Pad(MaxEmailLen - 3) \o <<64, 98, 46, 99>>,
      <<97, 98, 46, 99>>,
      <<97, 32, 64, 98, 46, 99>>,
      <<97, 64, 98, 99>>,
      <<97, 64, 98, 46>> }

Passwords == {<<112>>, Pad(MaxPasswordLen), <<>>, Pad(MaxPasswordLen + 1)}

\* An api_login that sends its request whatever the email and password.
LoginCallUnchecked(email, password, u) ==
    /\ SessionSend("login")
    /\ url' = u

\* api_login(email, password, api_base_url): an input that is not valid
\* returns status 400 and no request is sent; else the request is sent.
LoginCall(email, password, u) ==
    IF ValidLogin(email, password)
    THEN /\ SessionSend("login")
         /\ url' = u
    ELSE /\ apc = "idle"
         /\ apc' = "done"
         /\ aop' = "login"
         /\ aret' = SessionRet("response", FALSE, 400, None, None)
         /\ UNCHANGED <<auth, tokfile, base, url>>

\* api_refresh: the request is sent.
RefreshCall ==
    /\ SessionSend("refresh")
    /\ UNCHANGED url

\* A login that fails when the token cannot be stored (store_auth_token(..)?).
SessionResponseStrict(resp, n, o) ==
    /\ apc = "sent"
    /\ apc' = "done"
    /\ IF resp.ok /\ resp.token # None
       THEN /\ auth' = resp.token
            /\ tokfile' = StoreAuthToken(tokfile, resp.token[1], n, o)
            /\ aret' = IF o = "written"
                       THEN SessionRet("response", TRUE, resp.status,
                                       resp.token, auth)
                       ELSE SessionRet("error", FALSE, 0, None, auth)
       ELSE /\ aret' = SessionRet("response", resp.ok, resp.status,
                                  resp.token, auth)
            /\ UNCHANGED <<auth, tokfile>>
    /\ base' = IF resp.ok /\ resp.token # None /\ aop = "login"
               THEN url ELSE base
    /\ UNCHANGED <<aop, url>>

\* api_login and api_refresh after the await: a response that is ok and has
\* a string token sets auth_token (api_login: and api_base_url) and stores
\* the token, a failure of the store being logged only; the response is
\* returned.
SessionResponse(resp, n, o) ==
    /\ apc = "sent"
    /\ apc' = "done"
    /\ aret' = SessionRet("response", resp.ok, resp.status, resp.token, auth)
    /\ IF resp.ok /\ resp.token # None
       THEN /\ auth' = resp.token
            /\ base' = IF aop = "login" THEN url ELSE base
            /\ tokfile' = StoreAuthToken(tokfile, resp.token[1], n, o)
       ELSE UNCHANGED <<auth, base, tokfile>>
    /\ UNCHANGED <<aop, url>>

\* api_logout: auth_token = None, clear_auth_token with its failure logged
\* only, {"success": true}.
Logout(o) ==
    /\ apc = "idle"
    /\ apc' = "done"
    /\ aop' = "logout"
    /\ auth' = None
    /\ tokfile' = ClearAuthToken(tokfile, o)
    /\ aret' = SessionRet("success", TRUE, 0, None, None)
    /\ UNCHANGED <<base, url>>

\* api_has_token: {"hasToken": auth_token.is_some()}.
HasToken ==
    /\ apc = "idle"
    /\ apc' = "done"
    /\ aop' = "has_token"
    /\ aret' = SessionRet("hasToken", auth # None, 0, None, None)
    /\ UNCHANGED <<auth, tokfile, base, url>>

\* api_request: the Authorization header is sent when auth_token is Some.
ApiRequest(resp) ==
    /\ apc = "idle"
    /\ apc' = "done"
    /\ aop' = "request"
    /\ aret' = SessionRet("response", resp.ok, resp.status, None, auth)
    /\ UNCHANGED <<auth, tokfile, base, url>>

\* The caller takes the result of the session command.
SessionReturn ==
    /\ apc = "done"
    /\ apc' = "idle"
    /\ aop' = ""
    /\ aret' = NoSessionRet
    /\ url' = ""
    /\ UNCHANGED <<auth, tokfile, base>>

\* What the session commands leave alone.
ovars == <<cache, queue, now, pc, op, key, input, entry, ret, lastSet, pre,
           dvars, schema, disk, boots, mvars>>

svars == <<ovars, outSince>>

\* The session commands of one caller and restarts of the process.
TokenNext ==
    \/ \E e \in Emails, p \in Passwords, u \in LoginUrls :
          LoginCall(e, p, u) /\ UNCHANGED svars
    \/ RefreshCall /\ UNCHANGED svars
    \/ \E resp \in Responses, n \in Nonces, o \in StoreOutcomes :
          SessionResponse(resp, n, o) /\ UNCHANGED svars
    \/ \E o \in ClearOutcomes : Logout(o) /\ UNCHANGED svars
    \/ HasToken /\ UNCHANGED svars
    \/ \E resp \in Responses : ApiRequest(resp) /\ UNCHANGED svars
    \/ SessionReturn /\ UNCHANGED svars
    \/ Restart

TokenSpec == Init /\ [][TokenNext]_vars

\* api_logout invoked while the request of an api_login or api_refresh is
\* in flight: the lock on AppState is not held across the await, so the
\* logout runs and returns.
LogoutInFlight(o) ==
    /\ apc = "sent"
    /\ auth' = None
    /\ tokfile' = ClearAuthToken(tokfile, o)
    /\ outSince' = TRUE
    /\ UNCHANGED <<apc, aop, aret, base, url>>

\* The session commands with a logout that does not wait for the request in
\* flight.
OverlapNext ==
    \/ \E e \in Emails, p \in Passwords, u \in LoginUrls :
          LoginCall(e, p, u) /\ outSince' = FALSE /\ UNCHANGED ovars
    \/ RefreshCall /\ outSince' = FALSE /\ UNCHANGED ovars
    \/ \E resp \in Responses, n \in Nonces, o \in StoreOutcomes :
          SessionResponse(resp, n, o) /\ UNCHANGED svars
    \/ \E o \in ClearOutcomes : Logout(o) /\ UNCHANGED svars
    \/ \E o \in ClearOutcomes : LogoutInFlight(o) /\ UNCHANGED ovars
    \/ HasToken /\ UNCHANGED svars
    \/ \E resp \in Responses : ApiRequest(resp) /\ UNCHANGED svars
    \/ SessionReturn /\ UNCHANGED svars

OverlapSpec == Init /\ [][OverlapNext]_vars

\* ------------------------------------------ local database (database.rs)
\* The statements of Database::new after the file is opened, in order: m is
\* the migration whose `if !applied.contains(&m)` encloses the statement
\* (0: none).
Stmts ==
    << [m |-> 0, kind |-> "create", obj |-> "schema_migrations"],
       [m |-> 0, kind |-> "select", obj |-> "schema_migrations"],
       [m |-> 1, kind |-> "create", obj |-> "sync_queue"],
       [m |-> 1, kind |-> "create", obj |-> "sync_metadata"],
       [m |-> 1, kind |-> "version", obj |-> "schema_migrations"],
       [m |-> 2, kind |-> "create", obj |-> "employees"],
       [m |-> 2, kind |-> "create", obj |-> "leave_requests"],
       [m |-> 2, kind |-> "create", obj |-> "leave_balances"],
       [m |-> 2, kind |-> "create", obj |-> "audit_logs"],
       [m |-> 2, kind |-> "create", obj |-> "idx_employees_staff_id"],
       [m |-> 2, kind |-> "create", obj |-> "idx_employees_email"],
       [m |-> 2, kind |-> "create", obj |-> "idx_employees_department"],
       [m |-> 2, kind |-> "create", obj |-> "idx_leave_requests_staff_id"],
       [m |-> 2, kind |-> "create", obj |-> "idx_leave_requests_status"],
       [m |-> 2, kind |-> "create", obj |-> "idx_leave_balances_staff_id"],
       [m |-> 2, kind |-> "create", obj |-> "sync_metadata rows"],
       [m |-> 2, kind |-> "version", obj |-> "schema_migrations"] >>

\* The version rows of schema_migrations.
VersionsOf(rows) == {rows[i] : i \in 1..Len(rows)}

\* A migration test that ignores `applied`.
NotAppliedAlways(seen, v) == TRUE

\* !applied.contains(&v)
NotApplied(seen, v) == v \notin seen

\* The first statement after the `if` of migration v.
AfterMigration(v) ==
    1 + CHOOSE k \in 1..Len(Stmts) :
           Stmts[k].m = v /\ \A j \in (k + 1)..Len(Stmts) : Stmts[j].m # v

\* The process starts: main's setup calls Database::new, which opens the
\* file and sets its PRAGMAs.
DbStart ==
    /\ mpc = 0 /\ runs < MaxRuns
    /\ runs' = runs + 1
    /\ mpc' = 1
    /\ applied' = {}
    /\ dbret' = ""
    /\ UNCHANGED <<versions, objects, cutAt, redone>>

\* CREATE TABLE / INDEX IF NOT EXISTS, INSERT OR IGNORE: what exists stays.
DbCreate ==
    /\ mpc \in 1..Len(Stmts)
    /\ Stmts[mpc].kind = "create"
    /\ Stmts[mpc].m = 0 \/ NotApplied(applied, Stmts[mpc].m)
    /\ objects' = objects \cup {Stmts[mpc].obj}
    /\ redone' = IF Stmts[mpc].m \in VersionsOf(versions)
                 THEN redone \cup {Stmts[mpc].m} ELSE redone
    /\ mpc' = mpc + 1
    /\ UNCHANGED <<versions, applied, dbret, runs, cutAt>>

\* run_migrations: SELECT version FROM schema_migrations.
DbSelect ==
    /\ mpc \in 1..Len(Stmts)
    /\ Stmts[mpc].kind = "select"
    /\ applied' = VersionsOf(versions)
    /\ mpc' = mpc + 1
    /\ UNCHANGED <<versions, objects, dbret, runs, cutAt, redone>>

\* INSERT INTO schema_migrations (version, name): version is the PRIMARY
\* KEY, so a version that has a row fails the statement and Database::new.
DbVersion ==
    /\ mpc \in 1..Len(Stmts)
    /\ Stmts[mpc].kind = "version"
    /\ NotApplied(applied, Stmts[mpc].m)
    /\ IF Stmts[mpc].m \in VersionsOf(versions)
       THEN /\ redone' = redone \cup {Stmts[mpc].m}
            /\ mpc' = 0
            /\ dbret' = "err"
            /\ UNCHANGED versions
       ELSE /\ versions' = Append(versions, Stmts[mpc].m)
            /\ mpc' = mpc + 1
            /\ UNCHANGED <<redone, dbret>>
    /\ UNCHANGED <<objects, applied, runs, cutAt>>

\* A migration that `applied` contains: its statements are passed over.
DbSkip ==
    /\ mpc \in 1..Len(Stmts)
    /\ Stmts[mpc].m # 0
    /\ ~NotApplied(applied, Stmts[mpc].m)
    /\ mpc' = AfterMigration(Stmts[mpc].m)
    /\ UNCHANGED <<versions, objects, applied, dbret, runs, cutAt, redone>>

\* Ok(Database): every statement is done.
DbDone ==
    /\ mpc = Len(Stmts) + 1
    /\ mpc' = 0
    /\ dbret' = "ok"
    /\ UNCHANGED <<versions, objects, applied, runs, cutAt, redone>>

\* The run ends before its next statement: the statement returns Err, which
\* main logs, or the process is killed. No transaction encloses the
\* statements, so those that were executed stay.
DbCut(r) ==
    /\ mpc \in 1..Len(Stmts)
    /\ mpc' = 0
    /\ dbret' = r
    /\ cutAt' = mpc
    /\ UNCHANGED <<versions, objects, applied, runs, redone>>

\* What Database::new leaves alone.
bvars == <<cache, queue, now, pc, op, key, input, entry, ret, lastSet, pre,
           dvars, schema, disk, boots, tvars>>

\* The runs of Database::new, one at a time.
DbNext ==
    \/ DbStart /\ UNCHANGED bvars
    \/ DbCreate /\ UNCHANGED bvars
    \/ DbSelect /\ UNCHANGED bvars
    \/ DbVersion /\ UNCHANGED bvars
    \/ DbSkip /\ UNCHANGED bvars
    \/ DbDone /\ UNCHANGED bvars
    \/ \E r \in {"err", "killed"} : DbCut(r) /\ UNCHANGED bvars

DbSpec == Init /\ [][DbNext]_vars

\* ------------------------------------------------------------ queue drain
\* The replay policy of the caller: it enumerates list_pending, resends each
\* request in order, calls dequeue only after a successful resend and stops
\* at the first failure. A caller gives every request it builds a fresh id.
DrainRequest(i) ==
    QueuedRequest(i, CHOOSE sh \in RequestShapes :
                        sh.created_at = (IF i = "q1" THEN TextZ(2)
                                         ELSE IF i = "q2" THEN TextZ(1)
                                         ELSE TextOff(3, 2)))

\* The caller is in no drain pass.
AtRest(t) == dpc[t] \in {"rest", "failed", "finished"}

\* The caller cannot reach the server for a write: it builds a request and
\* calls enqueue.
DrainEnqueueCall(t) ==
    /\ AtRest(t)
    /\ \E i \in QueueIds \ made :
          /\ Invoke(t, "enqueue", i, Some(DrainRequest(i)))
          /\ made' = made \cup {i}
    /\ UNCHANGED <<dpc, listed, idx, log, delivered>>

\* The caller takes the result of its enqueue.
DrainEnqueueReturn(t) ==
    /\ AtRest(t) /\ op[t] = "enqueue"
    /\ Return(t)
    /\ UNCHANGED dvars

\* A drain pass starts: the caller calls list_pending.
DrainStart(t) ==
    /\ AtRest(t)
    /\ ListCall(t)
    /\ dpc' = [dpc EXCEPT ![t] = "listing"]
    /\ listed' = [listed EXCEPT ![t] = <<>>]
    /\ idx' = [idx EXCEPT ![t] = 0]
    /\ log' = [log EXCEPT ![t] = <<>>]
    /\ UNCHANGED <<made, delivered>>

\* The caller takes the listing; a listing that failed ends the pass.
DrainListed(t) ==
    /\ dpc[t] = "listing" /\ pc[t] = "done"
    /\ Return(t)
    /\ IF ret[t].ok
       THEN /\ listed' = [listed EXCEPT ![t] = ret[t].val]
            /\ idx' = [idx EXCEPT ![t] = 1]
            /\ dpc' = [dpc EXCEPT ![t] = "replaying"]
       ELSE /\ dpc' = [dpc EXCEPT ![t] = "rest"]
            /\ UNCHANGED <<listed, idx>>
    /\ UNCHANGED <<log, made, delivered>>

\* The resend of the next item succeeds: the caller calls dequeue of its id.
ResendOk(t) ==
    /\ dpc[t] = "replaying"
    /\ idx[t] <= Len(listed[t])
    /\ Invoke(t, "dequeue", listed[t][idx[t]].id, None)
    /\ log' = [log EXCEPT ![t] = Append(@, listed[t][idx[t]].id)]
    /\ delivered' = [delivered EXCEPT ![listed[t][idx[t]].id] = @ + 1]
    /\ dpc' = [dpc EXCEPT ![t] = "dequeuing"]
    /\ UNCHANGED <<listed, idx, made>>

\* The resend of the next item fails: the pass stops.
ResendFail(t) ==
    /\ dpc[t] = "replaying" /\ pc[t] = "idle"
    /\ idx[t] <= Len(listed[t])
    /\ log' = [log EXCEPT ![t] = Append(@, listed[t][idx[t]].id)]
    /\ dpc' = [dpc EXCEPT ![t] = "failed"]
    /\ UNCHANGED <<cache, queue, now, pc, op, key, input, entry, ret,
                   lastSet, pre, listed, idx, made, delivered>>

\* The caller takes the result of its dequeue and goes on to the next item.
DrainDequeued(t) ==
    /\ dpc[t] = "dequeuing" /\ pc[t] = "done"
    /\ Return(t)
    /\ idx' = [idx EXCEPT ![t] = @ + 1]
    /\ dpc' = [dpc EXCEPT ![t] = "replaying"]
    /\ UNCHANGED <<listed, log, made, delivered>>

\* No item is left in the listing: the pass is over.
DrainEnd(t) ==
    /\ dpc[t] = "replaying" /\ pc[t] = "idle"
    /\ idx[t] > Len(listed[t])
    /\ dpc' = [dpc EXCEPT ![t] = "finished"]
    /\ UNCHANGED <<cache, queue, now, pc, op, key, input, entry, ret,
                   lastSet, pre, listed, idx, log, made, delivered>>

\* The steps of a caller that enqueues and drains.
DrainStep(t) ==
    \/ DrainEnqueueCall(t) /\ UNCHANGED xvars
    \/ EnqueueExec(t) /\ UNCHANGED nvars
    \/ DrainEnqueueReturn(t) /\ UNCHANGED <<schema, xvars>>
    \/ DrainStart(t) /\ UNCHANGED xvars
    \/ ListExec(t) /\ UNCHANGED nvars
    \/ DrainListed(t) /\ UNCHANGED <<schema, xvars>>
    \/ ResendOk(t) /\ UNCHANGED xvars
    \/ ResendFail(t) /\ UNCHANGED <<schema, xvars>>
    \/ DequeueExec(t) /\ UNCHANGED nvars
    \/ DrainDequeued(t) /\ UNCHANGED <<schema, xvars>>
    \/ DrainEnd(t) /\ UNCHANGED <<schema, xvars>>

\* Two callers that enqueue and drain at once.
DrainNext == \E t \in Callers : DrainStep(t)

DrainSpec == Init /\ [][DrainNext]_vars

\* One caller that enqueues and drains: no other caller changes the queue.
PassNext == \E t \in {"c1"} : DrainStep(t)

PassSpec == Init /\ [][PassNext]_vars

\* The steps of a caller that the runtime and the replay policy carry out
\* whenever they can: a command that was called runs and returns, a caller
\* at rest starts another drain pass, a pass goes on to its end.
PassProgress(t) ==
    \/ EnqueueExec(t) /\ UNCHANGED nvars
    \/ DrainEnqueueReturn(t) /\ UNCHANGED <<schema, xvars>>
    \/ DrainStart(t) /\ UNCHANGED xvars
    \/ ListExec(t) /\ UNCHANGED nvars
    \/ DrainListed(t) /\ UNCHANGED <<schema, xvars>>
    \/ DequeueExec(t) /\ UNCHANGED nvars
    \/ DrainDequeued(t) /\ UNCHANGED <<schema, xvars>>
    \/ DrainEnd(t) /\ UNCHANGED <<schema, xvars>>

\* One caller that drains again and again, and whose resends do not fail
\* for ever: a resend that is tried infinitely often succeeds infinitely
\* often.
LivePassSpec ==
    /\ PassSpec
    /\ WF_vars(PassProgress("c1"))
    /\ SF_vars(ResendOk("c1") /\ UNCHANGED xvars)

\* The commands of both stores and the drains.
Next == CacheNext \/ QueueNext \/ DrainNext

Spec == Init /\ [][Next]_vars

\* =================================================================== claims
\* The callers that are inside a command: past get_offline_db (the first
\* storage access) and before the command's last statement.
InProgress == {t \in Callers : pc[t] \in {"open", "selected"}}

\* The instant a timestamp text denotes (texts that parse only).
Instant(s) == ParseRfc3339(s)[1]

\* An expiry that is set, valid and before / after the instant t.
ExpiresBefore(e, t) ==
    /\ e.expires_at # None
    /\ ParseRfc3339(e.expires_at[1]) # None
    /\ Instant(e.expires_at[1]) < t

ExpiresAfter(e, t) ==
    /\ e.expires_at # None
    /\ ParseRfc3339(e.expires_at[1]) # None
    /\ Instant(e.expires_at[1]) > t

\* C1: in every reachable state at most one cache or queue command is
\* between its first and its last storage access (the commands exclude one
\* another as under one lock).
C1_OneCommandAtATime == Cardinality(InProgress) <= 1

\* C2: a get that deletes a row deletes the expired row it read: the entry
\* of its key at the DELETE is the entry its SELECT returned, so a row that a
\* set wrote after the SELECT is never deleted by that get.
C2_GetDeletesTheRowItRead ==
    [][\A t \in Callers :
          (GetFinish(t) /\ cache' # cache) => lastSet[key[t]] = pre[t]]_vars

\* C3: a get whose SELECT follows set(e), e.expires_at = None, with no other
\* statement on that key in between, returns Ok(Some(e)): e in every field.
C3_SetThenGetReturnsEntry ==
    [][\A t \in Callers :
          (GetFinish(t) /\ pre[t] # None /\ pre[t][1].e.expires_at = None)
             => ret'[t] = Ok(Some(pre[t][1].e))]_vars

\* C3 witness: a get has returned after a set of an entry with no expiry.
C3_Witness ==
    \E t \in Callers :
       /\ pc[t] = "done" /\ op[t] = "get" /\ ret[t].ok
       /\ pre[t] # None /\ pre[t][1].e.expires_at = None
       /\ pre[t][1].e.response.kind = "string"

\* C4: a get whose SELECT follows set(e), e.expires_at in the past when the
\* set ran, returns Ok(None), and when it returns no row with that key is in
\* the cache table.
C4_ExpiredSetThenGetAbsent ==
    [][\A t \in Callers :
          (GetFinish(t) /\ pre[t] # None
             /\ ExpiresBefore(pre[t][1].e, pre[t][1].at))
             => /\ ret'[t] = Ok(None)
                /\ SelectByKey(cache', key[t]) = {}]_vars

\* C4 witness: a get has returned after a set of an entry that had expired
\* before the set.
C4_Witness ==
    \E t \in Callers :
       /\ pc[t] = "done" /\ op[t] = "get"
       /\ pre[t] # None /\ ExpiresBefore(pre[t][1].e, pre[t][1].at)
       /\ ret[t].val = None

\* C5: for an entry e stored with expires_at in the future, a get made
\* before the expiry time returns e and changes no row; a get made after the
\* expiry time returns Ok(None) and leaves no row with that key.
C5_GetBeforeAndAfterExpiry ==
    [][\A t \in Callers :
          (GetFinish(t) /\ pre[t] # None
             /\ ExpiresAfter(pre[t][1].e, pre[t][1].at))
             => /\ ExpiresAfter(pre[t][1].e, now)
                   => /\ ret'[t] = Ok(Some(pre[t][1].e))
                      /\ cache' = cache
                /\ ExpiresBefore(pre[t][1].e, now)
                   => /\ ret'[t] = Ok(None)
                      /\ SelectByKey(cache', key[t]) = {}]_vars

\* C5 witness: of two gets of entries stored before their expiry, one made
\* before the expiry has returned the entry and one made after it has
\* returned absent.
C5_Witness ==
    \E t, u \in Callers :
       /\ pc[t] = "done" /\ op[t] = "get" /\ pre[t] # None
       /\ ExpiresAfter(pre[t][1].e, pre[t][1].at)
       /\ ret[t].val = Some(pre[t][1].e)
       /\ pc[u] = "done" /\ op[u] = "get" /\ pre[u] # None
       /\ ExpiresAfter(pre[u][1].e, pre[u][1].at)
       /\ ExpiresBefore(pre[u][1].e, now)
       /\ ret[u].val = None

\* C6: the cache table holds at most one row per key.
C6_OneRowPerKey ==
    \A r1, r2 \in cache : r1.key = r2.key => r1 = r2

\* C6 witness: a set has run on a key that held another entry.
C6_Witness ==
    \E t \in Callers :
       /\ pc[t] = "done" /\ op[t] = "set"
       /\ pre[t] # None /\ pre[t][1].e # input[t][1]
       /\ SelectByKey(cache, key[t]) # {}

\* C7: after a set, the rows of its key are one row, and that row read back
\* is the entry of this set in every field, expires_at included.
C7_SetReplacesWholeRow ==
    [][\A t \in Callers :
          SetExec(t)
             => {CacheEntryOfRow(r) : r \in SelectByKey(cache', key[t])}
                  = {Some(input[t][1])}]_vars

\* C7 witness: a set of an entry with no expiry has run on a key that held
\* an entry with an expiry.
C7_Witness ==
    \E t \in Callers :
       /\ pc[t] = "done" /\ op[t] = "set"
       /\ pre[t] # None /\ pre[t][1].e.expires_at # None
       /\ input[t][1].expires_at = None

\* The ids of a listing, in its order.
IdsOf(rows) == [i \in 1..Len(rows) |-> rows[i].id]

\* C8: list_pending returns every row of the queue, in ascending order of
\* created_at (strictly ascending when the created_at are pairwise
\* distinct), whatever the order of the enqueue calls.
C8_ListAscendingByCreatedAt ==
    [][\A t \in Callers :
          ListExec(t)
             => /\ ret'[t].ok
                /\ Len(ret'[t].val) = Len(queue)
                /\ {ret'[t].val[i].id : i \in 1..Len(queue)}
                     = {queue[i].id : i \in 1..Len(queue)}
                /\ \A i, j \in 1..Len(queue) :
                      i < j => ~TextLess(ret'[t].val[j].created_at,
                                         ret'[t].val[i].created_at)
                /\ (\A i, j \in 1..Len(queue) :
                       i # j => queue[i].created_at # queue[j].created_at)
                   => \A i, j \in 1..Len(queue) :
                         i < j => TextLess(ret'[t].val[i].created_at,
                                           ret'[t].val[j].created_at)]_vars

\* C8 witness: a listing of three requests of pairwise distinct created_at
\* that were enqueued in another order than the listing's.
C8_Witness ==
    \E t \in Callers :
       /\ pc[t] = "done" /\ op[t] = "list_pending" /\ ret[t].ok
       /\ Len(ret[t].val) = 3 /\ Len(queue) = 3
       /\ \A i, j \in 1..3 :
             i < j => TextLess(ret[t].val[i].created_at,
                               ret[t].val[j].created_at)
       /\ IdsOf(ret[t].val) # IdsOf(queue)

\* C9: in every listing a request whose created_at denotes an earlier
\* instant comes before one whose created_at denotes a later instant.
C9_ListOldestFirst ==
    [][\A t \in Callers :
          ListExec(t)
             => \A i, j \in 1..Len(ret'[t].val) :
                   Instant(ret'[t].val[i].created_at)
                      < Instant(ret'[t].val[j].created_at) => i < j]_vars

C11_DuplicateEnqueueFails ==
    [][\A t \in Callers :
          (EnqueueExec(t) /\ SelectById(queue, key[t]) # None)
             => /\ ~ret'[t].ok
                /\ queue' = queue]_vars

\* C11 witness: an enqueue of a request with other fields than the row of
\* its id has returned Err, and that row is in the queue.
C11_Witness ==
    \E t \in Callers :
       /\ pc[t] = "done" /\ op[t] = "enqueue" /\ ~ret[t].ok
       /\ pre[t] # None /\ pre[t][1] # QueueRow(input[t][1])
       /\ SelectById(queue, key[t]) = pre[t]

\* A sequence without the elements of id i.
WithoutId(rows, i) == SelectSeq(rows, LAMBDA r : r.id # i)

\* C12: a dequeue of a present id removes the row of that id and no other,
\* the other rows keep their order, and the listing of the queue afterwards
\* is the listing before without that request.
C12_DequeueRemovesOneRow ==
    [][\A t \in Callers :
          (DequeueExec(t) /\ SelectById(queue, key[t]) # None)
             => /\ queue' = WithoutId(queue, key[t])
                /\ Len(queue') = Len(queue) - 1
                /\ OrderByCreatedAt(queue')
                     = WithoutId(OrderByCreatedAt(queue), key[t])]_vars

\* C12 witness: a dequeue of a present id has run and another request is
\* left in the queue.
C12_Witness ==
    \E t \in Callers :
       /\ pc[t] = "done" /\ op[t] = "dequeue" /\ ret[t].ok
       /\ pre[t] # None
       /\ Len(queue) >= 1
       /\ SelectById(queue, key[t]) = None

\* C13: get of a key with no row returns Ok(None); clear of a key with no
\* row and dequeue of an id with no row return Ok; none of them changes the
\* cache table or the queue table.
C13_AbsenceIsNotAnError ==
    [][\A t \in Callers :
          /\ (GetSelect(t) /\ SelectByKey(cache, key[t]) = {})
                => /\ pc'[t] = "selected" /\ entry'[t] = None
                   /\ cache' = cache /\ queue' = queue
          /\ (GetFinish(t) /\ entry[t] = None)
                => /\ ret'[t] = Ok(None)
                   /\ cache' = cache /\ queue' = queue
          /\ (ClearExec(t) /\ SelectByKey(cache, key[t]) = {})
                => /\ ret'[t].ok
                   /\ cache' = cache /\ queue' = queue
          /\ (DequeueExec(t) /\ SelectById(queue, key[t]) = None)
                => /\ ret'[t].ok
                   /\ cache' = cache /\ queue' = queue]_vars

\* C13 witness: a get of a key with no row has returned, the tables holding
\* other rows.
C13_Witness ==
    \E t \in Callers :
       /\ pc[t] = "done" /\ op[t] = "get"
       /\ entry[t] = None /\ pre[t] = None
       /\ cache # {} /\ queue # <<>>

\* C14: list_pending leaves the queue table as it is, and a list_pending
\* whose SELECT returns the rows that the SELECT of another list_pending
\* returned gives the same result.
C14_ListDoesNotConsume ==
    [][\A t \in Callers :
          ListExec(t)
             => /\ queue' = queue
                /\ \A u \in Callers :
                      (pc[u] = "done" /\ op[u] = "list_pending"
                         /\ pre[u] = Some(OrderByCreatedAt(queue)))
                         => ret'[t] = ret[u]]_vars

\* C14 witness: two listings of the same table of two or more requests have
\* returned.
C14_Witness ==
    \E t, u \in Callers :
       /\ t # u
       /\ pc[t] = "done" /\ op[t] = "list_pending"
       /\ pc[u] = "done" /\ op[u] = "list_pending"
       /\ pre[t] = Some(OrderByCreatedAt(queue)) /\ pre[u] = pre[t]
       /\ Len(queue) >= 2 /\ Len(ret[t].val) = Len(queue)

\* C15: clear_all of the cache leaves no row, and a get that finds no row
\* returns Ok(None); clear_all of the queue leaves no row, and a
\* list_pending of a queue with no row returns the empty sequence.
C15_ClearAllEmpties ==
    [][\A t \in Callers :
          /\ ClearAllExec(t)
                => /\ ret'[t].ok
                   /\ \A k \in Keys : SelectByKey(cache', k) = {}
          /\ (GetSelect(t) /\ cache = {})
                => pc'[t] = "selected" /\ entry'[t] = None
          /\ (GetFinish(t) /\ entry[t] = None) => ret'[t] = Ok(None)
          /\ ClearQueueExec(t) => ret'[t].ok /\ queue' = <<>>
          /\ (ListExec(t) /\ queue = <<>>) => ret'[t] = Ok(<<>>)]_vars

\* C15 witness: a clear_all of a cache that held a row for every key, one
\* without expiry, has returned.
C15_Witness ==
    \E t \in Callers :
       /\ pc[t] = "done" /\ op[t] = "clear_all"
       /\ pre[t] # None
       /\ \A k \in Keys : SelectByKey(pre[t][1], k) # {}
       /\ \E r \in pre[t][1] : r.expires_at = None
       /\ cache = {}

\* What a queue command does to the table when it runs alone.
SerialEffect(o, i, in, rows) ==
    IF o = "enqueue"
    THEN IF SelectById(rows, i) # None THEN rows
         ELSE Append(rows, QueueRow(in[1]))
    ELSE IF o = "dequeue" THEN WithoutId(rows, i)
    ELSE IF o = "clear_queue" THEN <<>>
    ELSE rows

\* C16: under concurrent callers every change of the queue table is the
\* whole effect of one command, as if that command ran alone at that point,
\* and a row leaves the table only by a dequeue of its id or a clear_all.
C16_ConcurrentQueueSerial ==
    [][/\ queue' # queue
          => \E t \in Callers :
                /\ pc[t] = "open" /\ pc'[t] = "done"
                /\ \A u \in Callers \ {t} : pc'[u] = pc[u]
                /\ queue' = SerialEffect(op[t], key[t], input[t], queue)
       /\ \A i \in 1..Len(queue) :
             (\A j \in 1..Len(queue') : queue'[j] # queue[i])
                => \E t \in Callers :
                      \/ DequeueExec(t) /\ key[t] = queue[i].id
                      \/ ClearQueueExec(t)]_vars

\* C16 witness: an enqueue and a dequeue of the same id, present in the
\* queue, are in progress at once.
C16_Witness ==
    \E t, u \in Callers :
       /\ pc[t] = "open" /\ op[t] = "enqueue"
       /\ pc[u] = "open" /\ op[u] = "dequeue"
       /\ key[t] = key[u]
       /\ SelectById(queue, key[t]) # None

\* The rows of the cache whose expiry has passed at the current time.
ExpiredRows == {r \in cache : ExpiresBefore(r, now)}

\* C18: a row whose expiry has passed leaves the cache table only by a get,
\* a set or a clear of its key or by a clear_all; the passing of time and
\* every other step leave it in the table.
C18_ExpiryIsLazy ==
    [][/\ \A r \in ExpiredRows :
             (SelectByKey(cache', r.key) # {r})
                => \E t \in Callers :
                      \/ GetFinish(t) /\ key[t] = r.key
                      \/ SetExec(t) /\ key[t] = r.key
                      \/ ClearExec(t) /\ key[t] = r.key
                      \/ ClearAllExec(t)
       /\ Tick => cache' = cache]_vars

\* C18 witness: at the last instant a row that expired before the instant 2
\* is in the table, and a get of another key has deleted the expired row of
\* that key.
C18_Witness ==
    /\ now = MaxTime
    /\ \E r \in ExpiredRows :
          /\ Instant(r.expires_at[1]) < 2
          /\ \E t \in Callers :
                /\ pc[t] = "done" /\ op[t] = "get" /\ key[t] # r.key
                /\ entry[t] # None /\ ret[t] = Ok(None)

\* C17: the rows that list_pending returns to a drain stay in the table,
\* with no mark on them, where the list_pending of another drain finds
\* them; two drains at once can so resend the same request twice.
C17_NoInFlightReservation ==
    [][\A t \in Callers :
          (ListExec(t) /\ dpc[t] = "listing")
             => /\ ret'[t].ok
                /\ \A i \in 1..Len(ret'[t].val) :
                      SelectById(queue', ret'[t].val[i].id)
                         = Some(QueueRow(ret'[t].val[i]))]_vars

\* C17 witness: two drains at once have each resent the same request with
\* success (an id stands for one request: ids are not given twice).
C17_Witness ==
    \E i \in QueueIds :
       /\ delivered[i] = 2
       /\ \A t \in Callers :
             /\ dpc[t] \in {"replaying", "dequeuing", "finished", "failed"}
             /\ \E j \in 1..Len(log[t]) : log[t][j] = i

\* C19: in a drain pass with no other caller the resends follow the listing
\* order, a dequeue is of the item whose resend has just succeeded, a failed
\* resend leaves in the queue the failed item and the items listed after it
\* and no other, and a pass with no failure leaves the queue empty.
C19_SingleDrainPass ==
    [][\A t \in Callers :
          /\ (ResendOk(t) \/ ResendFail(t))
                => log'[t] = IdsOf(SubSeq(listed[t], 1, Len(log'[t])))
          /\ DequeueExec(t)
                => /\ dpc[t] = "dequeuing"
                   /\ key[t] = log[t][Len(log[t])]
                   /\ delivered[key[t]] = 1
          /\ ResendFail(t)
                => IdsOf(OrderByCreatedAt(queue'))
                     = IdsOf(SubSeq(listed[t], idx[t], Len(listed[t])))
          /\ DrainEnd(t) => queue' = <<>>]_vars

\* C19 witness: a pass over three requests, enqueued in another order than
\* their listing order, has stopped at the second.
C19_Witness ==
    \E t \in Callers :
       /\ dpc[t] = "failed"
       /\ Len(listed[t]) = 3 /\ Len(log[t]) = 2
       /\ Len(queue) = 2
       /\ IdsOf(queue) # IdsOf(OrderByCreatedAt(queue))

\* C20 as stated: when a drain pass with no other caller ends, every item
\* that was in the queue when it started has been resent in it.
C20_EveryItemAttempted ==
    [][\A t \in Callers :
          /\ (ListExec(t) /\ dpc[t] = "listing")
                => /\ ret'[t].ok
                   /\ IdsOf(ret'[t].val) = IdsOf(OrderByCreatedAt(queue))
          /\ (ResendFail(t) \/ DrainEnd(t))
                => \A i \in 1..Len(listed[t]) :
                      \E j \in 1..Len(log'[t]) :
                         log'[t][j] = listed[t][i].id]_vars

\* C20: a drain pass with no other caller lists every item of the queue;
\* when it ends it has resent the items up to the first whose resend
\* failed, or all of them when none failed, and the items after the failed
\* one have not been resent and are in the queue.
C20_AttemptedUpToFirstFailure ==
    [][\A t \in Callers :
          /\ (ListExec(t) /\ dpc[t] = "listing")
                => /\ ret'[t].ok
                   /\ IdsOf(ret'[t].val) = IdsOf(OrderByCreatedAt(queue))
          /\ (ResendFail(t) \/ DrainEnd(t))
                => LET n == Len(log'[t])
                   IN /\ n <= Len(listed[t])
                      /\ log'[t] = IdsOf(SubSeq(listed[t], 1, n))
                      /\ n < Len(listed[t]) => ResendFail(t)
                      /\ \A i \in (n + 1)..Len(listed[t]) :
                            SelectById(queue', listed[t][i].id)
                               = Some(QueueRow(listed[t][i]))]_vars

\* C20 witness: a pass over two or more requests has stopped at the first,
\* the others being in the queue.
C20_Witness ==
    \E t \in Callers :
       /\ dpc[t] = "failed"
       /\ Len(log[t]) = 1 /\ Len(listed[t]) >= 2
       /\ \A i \in 1..Len(listed[t]) :
             SelectById(queue, listed[t][i].id) # None

\* C25: while the row that a successful enqueue(r) wrote is in the table, a
\* list_pending returns an item equal to r in every field: the payload and
\* the headers as they were given, absent headers absent.
C25_EnqueueThenListReturnsRequest ==
    [][\A t, u \in Callers :
          (/\ ListExec(u)
           /\ pc[t] = "done" /\ op[t] = "enqueue" /\ ret[t].ok
           /\ SelectById(queue, key[t]) = Some(QueueRow(input[t][1])))
             => /\ ret'[u].ok
                /\ \E i \in 1..Len(ret'[u].val) :
                      ret'[u].val[i] = input[t][1]]_vars

\* C25 witness: a listing made after the enqueue of a request with a header
\* has returned that request, and with it a request with no headers.
C25_Witness ==
    \E t, u \in Callers :
       /\ pc[t] = "done" /\ op[t] = "enqueue" /\ ret[t].ok
       /\ input[t][1].headers # None /\ input[t][1].headers[1] # {}
       /\ pc[u] = "done" /\ op[u] = "list_pending" /\ ret[u].ok
       /\ \E i \in 1..Len(ret[u].val) : ret[u].val[i] = input[t][1]
       /\ \E i \in 1..Len(ret[u].val) : ret[u].val[i].headers = None

\* C26 as stated: a set leaves the rows of the other keys as they are, and a
\* row leaves the table only by a get of its key when its expiry has
\* passed, a set or a clear of its key, or a clear_all.
C26_NoEvictionButExpiry ==
    [][/\ \A t \in Callers :
             SetExec(t)
                => \A k \in Keys \ {key[t]} :
                      SelectByKey(cache', k) = SelectByKey(cache, k)
       /\ \A r \in cache :
             (SelectByKey(cache', r.key) # {r})
                => \E t \in Callers :
                      \/ GetFinish(t) /\ key[t] = r.key
                                      /\ ExpiresBefore(r, now)
                      \/ SetExec(t) /\ key[t] = r.key
                      \/ ClearExec(t) /\ key[t] = r.key
                      \/ ClearAllExec(t)]_vars

\* The commands of the cache and the commands of the queue.
CacheOps == {"get", "set", "clear", "clear_all"}
QueueOps == {"enqueue", "list_pending", "dequeue", "clear_queue"}

\* C27: every step of a cache command leaves the queue table as it is, and
\* every step of a queue command leaves the cache table as it is.
C27_CacheAndQueueIndependent ==
    [][\A t \in Callers :
          (pc[t] # "idle" /\ pc'[t] # pc[t])
             => /\ op[t] \in CacheOps => queue' = queue
                /\ op[t] \in QueueOps => cache' = cache]_vars

\* C27 witness: a clear_all of a cache with rows has run while the queue
\* held requests, and they are in the queue.
C27_Witness ==
    \E t \in Callers :
       /\ pc[t] = "done" /\ op[t] = "clear_all"
       /\ pre[t] # None /\ pre[t][1] # {}
       /\ cache = {} /\ Len(queue) >= 2

\* C21: get_offline_db, run by every command and after every restart,
\* leaves every row of the cache table and of the queue table as it is, and
\* a restart of the process leaves both tables as they are.
C21_InitIdempotentAndDurable ==
    [][/\ \A t \in Callers :
             (pc[t] = "idle" /\ pc'[t] # "idle")
                => cache' = cache /\ queue' = queue
       /\ Restart => cache' = cache /\ queue' = queue]_vars

\* C21 witness: after a restart a command has run get_offline_db on tables
\* that hold rows.
C21_Witness ==
    \E t \in Callers :
       /\ boots >= 1
       /\ pc[t] = "open"
       /\ cache # {} /\ queue # <<>>

C24_AbsentImpliesNoRow ==
    [][\A t \in Callers :
          (op[t] = "get" /\ pc[t] # "done" /\ pc'[t] = "done"
             /\ ret'[t] = Ok(None))
             => SelectByKey(cache', key[t]) = {}]_vars

\* The rows whose payload text deserializes.
Readable(rows) == SelectSeq(rows, LAMBDA r : FromJson(r.payload) # None)

\* C23 as stated: a get of a key whose row deserializes succeeds whatever
\* the other rows are, and a list_pending of a queue with one row that does
\* not deserialize returns the other rows.
C23_CorruptRowAloneFails ==
    [][\A t \in Callers :
          /\ (GetSelect(t)
                /\ \E r \in SelectByKey(cache, key[t]) :
                      FromJson(r.response) # None)
                => pc'[t] = "selected" /\ entry'[t] # None
          /\ (ListExec(t) /\ Readable(queue) # queue)
                => /\ ret'[t].ok
                   /\ IdsOf(ret'[t].val)
                        = IdsOf(OrderByCreatedAt(Readable(queue)))]_vars

\* C28 as stated: after a restart with a token file that load_auth_token
\* reads, AppState.auth_token is the token of the file.
C28_TokenKeptAcrossRestart ==
    [][(/\ Restart
        /\ LoadAuthToken(tokfile).ok
        /\ LoadAuthToken(tokfile).val # None)
          => auth' = LoadAuthToken(tokfile).val]_vars

\* C29: an api_login or api_refresh whose response is ok and has a token
\* returns that response and sets auth_token to the token, whatever
\* store_auth_token returned; api_logout returns success and sets
\* auth_token to None, whatever clear_auth_token returned.
C29_TokenStorageFailureNotFatal ==
    [][/\ \A resp \in Responses, n \in Nonces, o \in StoreOutcomes :
             (SessionResponse(resp, n, o) /\ resp.ok /\ resp.token # None)
                => /\ aret'.kind = "response" /\ aret'.ok
                   /\ aret'.status = resp.status
                   /\ aret'.token = resp.token
                   /\ auth' = resp.token
       /\ \A o \in ClearOutcomes :
             Logout(o)
                => /\ aret'.kind = "success" /\ aret'.ok
                   /\ auth' = None]_vars

\* C29 witness: a refresh has returned the ok response with a token that is
\* in auth_token while the file holds the token of the login before it.
C29_Witness ==
    /\ apc = "done" /\ aop = "refresh"
    /\ aret.ok /\ aret.token # None
    /\ auth = aret.token
    /\ tokfile # None /\ DecryptToken(tokfile[1]) # None
    /\ DecryptToken(tokfile[1]) # auth

\* C30: under repeated drain passes of one caller whose resends eventually
\* succeed, every request that is pending is eventually out of the queue
\* after a successful resend, the queue is empty from some point on, and
\* every successful resend is of the pending request that is first in
\* created_at order.
C30_DrainEventuallyEmptiesQueue ==
    /\ \A i \in QueueIds :
          (SelectById(queue, i) # <<>>)
             ~> (SelectById(queue, i) = <<>> /\ delivered[i] >= 1)
    /\ <>[](queue = <<>>)
    /\ [][\A t \in Callers :
             ResendOk(t)
                => listed[t][idx[t]].id = OrderByCreatedAt(queue)[1].id]_vars

\* C30 witness: every request that was built has been enqueued, resent with
\* success and dequeued, after a pass that had stopped at a failure, and
\* the queue is empty.
C30_Witness ==
    /\ made = QueueIds
    /\ queue = <<>>
    /\ \A i \in QueueIds : delivered[i] >= 1
    /\ dpc["c1"] = "finished"
    /\ Len(log["c1"]) < Cardinality(QueueIds)

\* An expires_at that is set and is no RFC3339 time.
InvalidExpiry(e) ==
    e.expires_at # None /\ ParseRfc3339(e.expires_at[1]) = None

\* C31 as stated: a get that has read an entry whose expires_at is no
\* RFC3339 time returns it, at any current time, and no get deletes a row
\* whose expires_at is no RFC3339 time.
C31_InvalidExpiryNeverExpires ==
    [][\A t \in Callers :
          GetFinish(t)
             => /\ (entry[t] # None /\ InvalidExpiry(entry[t][1]))
                   => ret'[t] = Ok(entry[t])
                /\ \A r \in cache : InvalidExpiry(r) => r \in cache']_vars

\* C32: a get that has read an entry and reaches its expiry test at a
\* current time equal to the entry's expires_at returns the entry and
\* changes no row; a get that has read an entry returns absent, or deletes
\* a row, only at a current time later than the entry's expires_at.
C32_ExpiryComparisonStrict ==
    [][\A t \in Callers :
          (/\ GetFinish(t)
           /\ entry[t] # None
           /\ entry[t][1].expires_at # None
           /\ ~InvalidExpiry(entry[t][1]))
             => /\ Instant(entry[t][1].expires_at[1]) = now
                   => ret'[t] = Ok(entry[t]) /\ cache' = cache
                /\ (ret'[t].val = None \/ cache' # cache)
                   => Instant(entry[t][1].expires_at[1]) < now]_vars

\* C32 witness: a get has returned an entry whose expires_at is the current
\* time.
C32_Witness ==
    \E t \in Callers :
       /\ pc[t] = "done" /\ op[t] = "get" /\ ret[t].ok
       /\ ret[t].val # None
       /\ ret[t].val[1].expires_at # None
       /\ ~InvalidExpiry(ret[t].val[1])
       /\ Instant(ret[t].val[1].expires_at[1]) = now
       /\ now >= 1

\* C33 as stated: after an api_logout has returned, auth_token is set
\* again only by a login or refresh that was sent after it; the response of
\* a request that was in flight when the logout ran leaves auth_token None.
C33_LogoutOutlastsRequestsInFlight ==
    [][/\ (auth = None /\ auth' # None) => ~outSince
       /\ \A resp \in Responses, n \in Nonces, o \in StoreOutcomes :
             (SessionResponse(resp, n, o) /\ outSince) => auth' = None]_vars

\* C34: an api_login whose email or password is not valid returns status
\* 400, sends no request and changes neither auth_token nor api_base_url nor
\* the token file; the response of a login changes auth_token, api_base_url
\* or the token file only when it is ok and carries a string token.
C34_LoginChangesStateOnlyOnSuccess ==
    [][/\ \A e \in Emails, p \in Passwords, u \in LoginUrls :
             (LoginCall(e, p, u) /\ ~ValidLogin(e, p))
                => /\ apc' = "done"
                   /\ aret'.status = 400 /\ ~aret'.ok
                   /\ UNCHANGED <<auth, base, tokfile>>
       /\ \A resp \in Responses, n \in Nonces, o \in StoreOutcomes :
             (SessionResponse(resp, n, o) /\ aop = "login"
                /\ ~(resp.ok /\ resp.token # None))
                => UNCHANGED <<auth, base, tokfile>>]_vars

\* C34 witness: with a session open at a URL a login was given, one login
\* has been rejected with status 400 after another had failed at the server.
C34_Witness ==
    /\ apc = "done" /\ aop = "login"
    /\ aret.status = 400
    /\ auth # None /\ base \in LoginUrls
    /\ tokfile # None

\* C35: in every state schema_migrations has at most one row per version
\* and no statement of a migration has been executed while its version row
\* existed; when a run of Database::new has returned Ok, the rows are one
\* for version 1 and one for version 2, whatever runs were cut before it.
C35_MigrationsRunOnce ==
    /\ \A i, j \in 1..Len(versions) : versions[i] = versions[j] => i = j
    /\ redone = {}
    /\ dbret = "ok" => (Len(versions) = 2 /\ VersionsOf(versions) = {1, 2})

\* C35 witness: a run has returned Ok after a run that was cut between two
\* statements of migration 2, and after three runs in all.
C35_Witness ==
    /\ dbret = "ok" /\ runs = 3
    /\ cutAt \in 2..Len(Stmts)
    /\ Stmts[cutAt].m = 2 /\ Stmts[cutAt - 1].m = 2
    /\ applied = {1}

====
